---- MODULE Spec2Model ----
(***************************************************************************)
(* Coastline tiling core of generator/coastlines_generator.cpp:            *)
(*   - RegionInCellSplitter: the worker pool over the shared cell queue,   *)
(*   - DoDifference: the per-cell fold over the indexed land regions,      *)
(*   - CoastlineFeaturesGenerator: Process / Finish / GetFeatures.         *)
(*                                                                         *)
(* Spec and FairSpec run the worker pool, StartSpec runs it from the       *)
(* kStartLevel seeds, EmitSpec runs it with the callback's critical        *)
(* section as steps of its own, GenSpec runs the generator's calls,        *)
(* FoldSpec runs one fold region by region.                                *)
(*                                                                         *)
(* Every block guarded by mutexTasks is one action: all accesses to        *)
(* listTasks and inWork happen under that mutex, so the blocks are atomic  *)
(* with respect to each other.                                             *)
(*                                                                         *)
(* In the splitter a region is kept as what ProcessCell and DoDifference   *)
(* read of it: its bounding rect (GetRect) and its number of points        *)
(* (GetPointsCount).  The field clip is the number of points of the piece  *)
(* that IntersectRegions yields when a cell envelope cuts the region; it   *)
(* is a property of the region's shape, fixed with the tree content.       *)
(***************************************************************************)
EXTENDS Integers, Sequences, FiniteSets, Bags, TLC

VARIABLES
  numThreads,     \* Process: numThreads
  baseScale,      \* Process: baseScale
  m_index,        \* RegionInCellSplitter::m_index, the tree the workers read
  listTasks,      \* Context::listTasks
  inWork,         \* Context::inWork
  pc,             \* per worker: position in operator()()
  currentCell,    \* per worker: operator()() currentCell
  mainPc,         \* position of the thread that runs Process
  processRet,     \* return value of RegionInCellSplitter::Process
  features,       \* GetFeatures: the output vector, as a bag
  accepted,       \* history: the (cell, doDiff) pairs handed to processResultFunc
  featuresMutex,  \* GetFeatures: featuresMutex, the worker that holds it or 0
  m_tree,         \* CoastlineFeaturesGenerator::m_tree, in insertion order
  m_merger,       \* CoastlineFeaturesGenerator::m_merger: the features handed to it
  genPc,          \* the caller's position: "process", "finished", "emitted"
  finishRet,      \* return value of CoastlineFeaturesGenerator::Finish
  calls,          \* history: the arguments of the Process calls so far
  delivered,      \* history: the features DoMerge handed to DoAddToTree
  doDiff,         \* ProcessCell: doDiff, while the tree's regions are folded in
  toVisit,        \* ProcessCell: the regions ForEachInRect has still to hand over
  visited,        \* history: the regions handed to doDiff so far
  foldCell        \* ProcessCell: cell

SplitterVars == <<numThreads, baseScale, m_index, listTasks, inWork, pc, currentCell,
                  mainPc, processRet, features, accepted, featuresMutex>>
GenVars == <<m_tree, m_merger, genPc, finishRet, calls, delivered>>
FoldVars == <<doDiff, toVisit, visited, foldCell>>

vars == <<SplitterVars, GenVars, FoldVars>>

---------------------------------------------------------------------------
(* Bounds of the model *)

MaxThreads == 2

---------------------------------------------------------------------------
(* Program constants *)

kStartLevel == 4
kHighLevel == 10
kMaxPoints == 20000
MAX_CHILDREN == 4
kPointCoordBits == 30

---------------------------------------------------------------------------
(* Quantizer and cell geometry.  A mercator coordinate is kept as a whole  *)
(* number of steps of the level kHighLevel+1 grid: every cell bound is one.*)

MercLevel == kHighLevel + 1
MercSide == 2 ^ MercLevel

Min2(a, b) == IF a <= b THEN a ELSE b
Max2(a, b) == IF a >= b THEN a ELSE b

\* DoubleToUint32: 0.5 + (x - min) / (max - min) * (2^bits - 1), truncated.
\* With x = m / MercSide of the extent this is m * 2^(bits - MercLevel) - m / MercSide
\* rounded to nearest.
DoubleToUint32(m) ==
  m * 2 ^ (kPointCoordBits - MercLevel) - (IF 2 * m > MercSide THEN 1 ELSE 0)

D2I(p) == [x |-> DoubleToUint32(p.x), y |-> DoubleToUint32(p.y)]

\* CellId: the path from the root, two bits per level; the low bit of a step
\* selects the x half, the high bit the y half.
RECURSIVE CellX(_, _)
CellX(bits, level) ==
  IF level <= 0 THEN 0 ELSE 2 * CellX(bits \div 4, level - 1) + (bits % 2)

RECURSIVE CellY(_, _)
CellY(bits, level) ==
  IF level <= 0 THEN 0 ELSE 2 * CellY(bits \div 4, level - 1) + ((bits \div 2) % 2)

TotalCellsOnLevel(level) == 4 ^ level

FromBitsAndLevel(bits, level) == [level |-> level, bits |-> bits]

Child(cell, i) == [level |-> cell.level + 1, bits |-> cell.bits * 4 + i]

\* CellId::ToInt64(depth): the cell's number in the pre-order walk of the
\* depth-level tree.
RECURSIVE SumShiftedRight(_, _)
SumShiftedRight(bits, n) ==
  IF n = 0 THEN 0 ELSE (bits + 1) + SumShiftedRight(bits \div 4, n - 1)

RECURSIVE SumShiftedLeft(_, _)
SumShiftedLeft(bits, n) ==
  IF n = 0 THEN 0 ELSE (bits * 4) + SumShiftedLeft(bits * 4, n - 1)

ToInt64(cell, depth) ==
  SumShiftedRight(cell.bits, cell.level + 1)
    + SumShiftedLeft(cell.bits, Max2(depth - cell.level - 1, 0))

\* CellIdConverter::GetCellBounds, in grid steps.
GetCellBounds(cell) ==
  LET side == 2 ^ (MercLevel - cell.level)
      ix == CellX(cell.bits, cell.level)
      iy == CellY(cell.bits, cell.level)
  IN [minX |-> ix * side, minY |-> iy * side,
      maxX |-> (ix + 1) * side, maxY |-> (iy + 1) * side]

---------------------------------------------------------------------------
(* Rectangles and regions *)

RectOf(points) ==
  [minX |-> CHOOSE v \in {points[i].x : i \in DOMAIN points} :
              \A j \in DOMAIN points : v <= points[j].x,
   minY |-> CHOOSE v \in {points[i].y : i \in DOMAIN points} :
              \A j \in DOMAIN points : v <= points[j].y,
   maxX |-> CHOOSE v \in {points[i].x : i \in DOMAIN points} :
              \A j \in DOMAIN points : v >= points[j].x,
   maxY |-> CHOOSE v \in {points[i].y : i \in DOMAIN points} :
              \A j \in DOMAIN points : v >= points[j].y]

\* Rect::IsRectInside: both corners of r lie in outer, borders included.
IsRectInside(outer, r) ==
  /\ outer.minX <= r.minX /\ r.minX <= outer.maxX
  /\ outer.minY <= r.minY /\ r.minY <= outer.maxY
  /\ outer.minX <= r.maxX /\ r.maxX <= outer.maxX
  /\ outer.minY <= r.maxY /\ r.maxY <= outer.maxY

\* Rect::IsIntersect: the closed rects share a point.
IsIntersect(a, b) ==
  ~ (a.maxX < b.minX \/ a.minX > b.maxX \/ a.maxY < b.minY \/ a.minY > b.maxY)

\* GetLimitRect: the region's integer rect as a rect of doubles, same numbers.
GetLimitRect(rgn) ==
  [minX |-> rgn.rect.minX, minY |-> rgn.rect.minY,
   maxX |-> rgn.rect.maxX, maxY |-> rgn.rect.maxY]

\* m4::Tree::ForEachInRect: the indexed regions whose rect meets the query,
\* in the tree's (insertion) order.
ForEachInRect(index, query) ==
  SelectSeq(index, LAMBDA r : IsIntersect(GetLimitRect(r), query))

\* m2::IntersectRegions(r1, r2, res): appends the regions of r1 * r2 to res.
Intersection(r1, r2) ==
  LET i == [minX |-> Max2(r1.rect.minX, r2.rect.minX),
            minY |-> Max2(r1.rect.minY, r2.rect.minY),
            maxX |-> Min2(r1.rect.maxX, r2.rect.maxX),
            maxY |-> Min2(r1.rect.maxY, r2.rect.maxY)]
  IN IF i.minX >= i.maxX \/ i.minY >= i.maxY
     THEN << >>
     ELSE << [rect |-> i, size |-> r2.clip, clip |-> r2.clip] >>

IntersectRegions(r1, r2, res) == res \o Intersection(r1, r2)

---------------------------------------------------------------------------
(* DoDifference *)

\* DoDifference::DoDifference(rgn)
DoDifference(rgn) == [m_src |-> rgn.rect, m_res |-> << rgn >>]

\* The inside test is made the other way round.
VisitSwapped(d, r) ==
  IF IsRectInside(r.rect, d.m_src)
  THEN [d EXCEPT !.m_res = Append(@, r)]
  ELSE [d EXCEPT !.m_res = IntersectRegions(d.m_res[1], r, d.m_res)]

\* The first element is replaced by the intersection.
VisitReplaceFirst(d, r) ==
  IF IsRectInside(d.m_src, r.rect)
  THEN [d EXCEPT !.m_res = Append(@, r)]
  ELSE [d EXCEPT !.m_res = IF Intersection(d.m_res[1], r) = << >> THEN @
                           ELSE << Intersection(d.m_res[1], r)[1] >> \o Tail(@)]

\* DoDifference::operator()(RegionT const & r)
Visit(d, r) ==
  IF IsRectInside(d.m_src, r.rect)
  THEN [d EXCEPT !.m_res = Append(@, r)]
  ELSE [d EXCEPT !.m_res = IntersectRegions(d.m_res[1], r, d.m_res)]

RECURSIVE VisitAll(_, _)
VisitAll(d, regions) ==
  IF regions = << >> THEN d
  ELSE VisitAll(Visit(d, Head(regions)), Tail(regions))

RECURSIVE SumSizes(_, _)
SumSizes(res, i) ==
  IF i > Len(res) THEN 0 ELSE res[i].size + SumSizes(res, i + 1)

\* DoDifference::GetPointsCount
GetPointsCount(d) == SumSizes(d.m_res, 1)

\* The loop starts at the second region: the envelope is left out.
AssignGeometrySkipFirst(d) ==
  [i \in 1 .. Len(d.m_res) - 1 |->
     [size |-> d.m_res[i + 1].size, rect |-> d.m_res[i + 1].rect]]

\* DoDifference::AssignGeometry: one polygon per region of m_res, in order.
AssignGeometry(d) ==
  [i \in 1 .. Len(d.m_res) |-> [size |-> d.m_res[i].size, rect |-> d.m_res[i].rect]]

---------------------------------------------------------------------------
(* RegionInCellSplitter *)

Threads == 1 .. MaxThreads

NoCell == [level |-> -1, bits |-> 0]

\* ProcessCell, lines 239-246: the cell's envelope, a region of four points.
CellRegion(cell) ==
  LET b == GetCellBounds(cell)
      arr == << D2I([x |-> b.minX, y |-> b.minY]), D2I([x |-> b.minX, y |-> b.maxY]),
                D2I([x |-> b.maxX, y |-> b.maxY]), D2I([x |-> b.maxX, y |-> b.minY]) >>
  IN [rect |-> RectOf(arr), size |-> Len(arr), clip |-> Len(arr)]

\* ProcessCell, lines 250-251: the fold over the regions the tree yields.
CellDifference(index, cell) ==
  LET rectR == CellRegion(cell)
  IN VisitAll(DoDifference(rectR), ForEachInRect(index, GetLimitRect(rectR)))

\* The level is not looked at.
TooManyPointsAnyLevel(cell, d) == GetPointsCount(d) >= kMaxPoints

\* The budget is taken twice as large.
TooManyPointsLoose(cell, d) ==
  cell.level < kHighLevel /\ GetPointsCount(d) >= 2 * kMaxPoints

\* The level test lets a kHighLevel cell through.
TooManyPointsInclusive(cell, d) ==
  cell.level <= kHighLevel /\ GetPointsCount(d) >= kMaxPoints

\* ProcessCell, line 254
TooManyPoints(cell, d) ==
  cell.level < kHighLevel /\ GetPointsCount(d) >= kMaxPoints

\* The wait returns as soon as the list is empty, whatever inWork is.
WaitPredicateQueueOnly(tasks, work) == TRUE

\* operator()(), line 267: the predicate of the wait
WaitPredicate(tasks, work) == tasks # << >> \/ work = 0

\* operator()(), line 271
Front(tasks) == Head(tasks)

\* The list loses its last cell instead of its first.
PopBack(tasks) == SubSeq(tasks, 1, Len(tasks) - 1)

\* operator()(), line 272
PopFront(tasks) == Tail(tasks)

\* Only the notifying worker goes on: no waiting worker is woken.
NotifyNone(p, w) == [p EXCEPT ![w] = "lock"]

\* operator()(), line 286: notify_all ends the wait of every blocked worker; the
\* notifying worker w goes on to the next turn of its loop.
NotifyAll(p, w) ==
  [v \in DOMAIN p |-> IF v = w \/ p[v] = "blocked" THEN "lock" ELSE p[v]]

\* The children are pushed at the front.
PushChildrenFront(tasks, cell) ==
  [i \in 1 .. MAX_CHILDREN |-> Child(cell, i - 1)] \o tasks

\* The loop stops one child short.
PushThreeChildren(tasks, cell) ==
  tasks \o [i \in 1 .. MAX_CHILDREN - 1 |-> Child(cell, i - 1)]

\* operator()(), lines 282-283
PushChildren(tasks, cell) ==
  tasks \o [i \in 1 .. MAX_CHILDREN |-> Child(cell, i - 1)]

\* GetFeatures, lines 301-307: the feature the callback builds.
BuildFeature(cell, d) ==
  [coastCell |-> ToInt64(cell, kHighLevel + 1), polygons |-> AssignGeometry(d)]

\* The cells are pushed at the front.
SeedTasksFront(scale) ==
  [i \in 1 .. TotalCellsOnLevel(scale) |->
     FromBitsAndLevel(TotalCellsOnLevel(scale) - i, scale)]

\* The loop stops one cell short.
SeedTasksShort(scale) ==
  [i \in 1 .. TotalCellsOnLevel(scale) - 1 |-> FromBitsAndLevel(i - 1, scale)]

\* Process, lines 217-218
SeedTasks(scale) ==
  [i \in 1 .. TotalCellsOnLevel(scale) |-> FromBitsAndLevel(i - 1, scale)]

---------------------------------------------------------------------------
(* Tree contents the splitter is run on *)

RECURSIVE Descend(_, _, _)
Descend(cell, i, n) == IF n = 0 THEN cell ELSE Descend(Child(cell, i), i, n - 1)

\* A region that lies strictly inside the cell, with n points.
Island(cell, n) ==
  LET r == CellRegion(cell).rect
  IN [rect |-> [minX |-> r.minX + 1, minY |-> r.minY + 1,
                maxX |-> r.maxX - 1, maxY |-> r.maxY - 1],
      size |-> n, clip |-> n]

\* A region of n points across the border between the cell and its right-hand
\* neighbour, cut by either envelope into one piece of c points.
Coast(cell, n, c) ==
  LET r == CellRegion(cell).rect
  IN [rect |-> [minX |-> r.maxX - 2, minY |-> r.minY + 1,
                maxX |-> r.maxX + 2, maxY |-> r.minY + 3],
      size |-> n, clip |-> c]

\* A region of n points inside the cell that touches the cell's left border.
Shore(cell, n) ==
  LET r == CellRegion(cell).rect
  IN [rect |-> [minX |-> r.minX, minY |-> r.minY + 5,
                maxX |-> r.minX + 9, maxY |-> r.minY + 9],
      size |-> n, clip |-> n]

Root == FromBitsAndLevel(0, 0)
Quarter(i) == Child(Root, i)

\* One island just under the budget: its cell is accepted at once.
TreeIsland ==
  << Island(Descend(Root, 3, kHighLevel), kMaxPoints - 5) >>
\* One island over the budget: its cells split down to kHighLevel.
TreeHeavy ==
  << Island(Descend(Root, 2, kHighLevel), kMaxPoints) >>
\* Two islands that together meet the budget exactly, in two level 3 cells.
TreeTwo ==
  << Island(Descend(Child(Child(Quarter(0), 0), 1), 1, kHighLevel - 3),
            (kMaxPoints - 4) \div 2),
     Island(Descend(Child(Child(Quarter(0), 0), 2), 2, kHighLevel - 3),
            (kMaxPoints - 4) \div 2) >>
\* A region cut by the border between two level 1 cells, and one touching it.
TreeCoast ==
  << Coast(Quarter(0), kMaxPoints, 5), Shore(Quarter(1), 3) >>
TreeEmpty == << >>

Trees == {TreeEmpty, TreeIsland, TreeHeavy, TreeTwo, TreeCoast}

\* The base scales Process is called with.
BaseScales == {0, 1}

---------------------------------------------------------------------------
(* CoastlineFeaturesGenerator: the features it is fed and what it does     *)
(* with one.  A feature is the list of its polygons, a polygon the list of *)
(* its mercator points.  A region of m_tree is kept whole: its points and  *)
(* the rect that AddPoint keeps up to date.                                *)

MaxCalls == 3

Pt(x, y) == [x |-> x, y |-> y]

\* std::numeric_limits<int32_t>::max() and lowest()
IntMax == (2 ^ 30 - 1) + 2 ^ 30
IntLowest == (- IntMax) - 1

\* RegionT rgn: no points, and the rect of Rect::MakeEmpty.
EmptyRegion ==
  [points |-> << >>,
   rect |-> [minX |-> IntMax, minY |-> IntMax, maxX |-> IntLowest, maxY |-> IntLowest]]

\* Region::AddPoint
AddPoint(rgn, p) ==
  [points |-> Append(rgn.points, p),
   rect |-> [minX |-> Min2(rgn.rect.minX, p.x), minY |-> Min2(rgn.rect.minY, p.y),
             maxX |-> Max2(rgn.rect.maxX, p.x), maxY |-> Max2(rgn.rect.maxY, p.y)]]

\* FeatureBuilder::IsGeometryClosed: the outer polygon is a ring.
IsGeometryClosed(fb) ==
  /\ fb.polygons # << >>
  /\ LET poly == fb.polygons[1]
     IN Len(poly) > 2 /\ poly[1] = poly[Len(poly)]

\* FeatureBuilder::GetPointsCount
RECURSIVE CountPoints(_, _)
CountPoints(polygons, i) ==
  IF i > Len(polygons) THEN 0 ELSE Len(polygons[i]) + CountPoints(polygons, i + 1)

FeaturePointsCount(fb) == CountPoints(fb.polygons, 1)

\* m4::Tree::Add
TreeAdd(tree, rgn, rect) == Append(tree, [rgn |-> rgn, rect |-> rect])

\* AddRegionToTree, lines 51-53: the loop from std::next(cbegin) to cend.
RECURSIVE AddPoints(_, _, _)
AddPoints(rgn, polygon, it) ==
  IF it > Len(polygon) THEN rgn
  ELSE AddPoints(AddPoint(rgn, D2I(polygon[it])), polygon, it + 1)

\* The loop runs from cbegin to the point before the last.
RECURSIVE AddPointsButLast(_, _, _)
AddPointsButLast(rgn, polygon, it) ==
  IF it > Len(polygon) - 1 THEN rgn
  ELSE AddPointsButLast(AddPoint(rgn, D2I(polygon[it])), polygon, it + 1)

AddPolygonSkipLast(tree, polygon) ==
  IF polygon = << >> THEN tree
  ELSE LET rgn == AddPointsButLast(EmptyRegion, polygon, 1)
       IN TreeAdd(tree, rgn, GetLimitRect(rgn))

\* AddRegionToTree, lines 47-57: the visitor of ForEachPolygon.
AddPolygon(tree, polygon) ==
  IF polygon = << >> THEN tree
  ELSE LET rgn == AddPoints(EmptyRegion, polygon, 2)
       IN TreeAdd(tree, rgn, GetLimitRect(rgn))

RECURSIVE ForEachPolygon(_, _, _)
ForEachPolygon(tree, polygons, i) ==
  IF i > Len(polygons) THEN tree
  ELSE ForEachPolygon(AddPolygon(tree, polygons[i]), polygons, i + 1)

\* CoastlineFeaturesGenerator::AddRegionToTree
AddRegionToTree(tree, fb) == ForEachPolygon(tree, fb.polygons, 1)

\* m_merger(fb): the merger keeps the feature until DoMerge.
MergerAdd(merger, fb) == Append(merger, fb)

\* A closed feature goes to the merger as well.
ProcessBoth(tree, merger, fb) ==
  IF IsGeometryClosed(fb)
  THEN [tree |-> AddRegionToTree(tree, fb), merger |-> MergerAdd(merger, fb)]
  ELSE [tree |-> tree, merger |-> MergerAdd(merger, fb)]

\* CoastlineFeaturesGenerator::Process
Process(tree, merger, fb) ==
  IF IsGeometryClosed(fb)
  THEN [tree |-> AddRegionToTree(tree, fb), merger |-> merger]
  ELSE [tree |-> tree, merger |-> MergerAdd(merger, fb)]

\* The ring merger: chains are spliced end to end; a polyline joins the chain
\* that ends at its head, else the chain that starts at its tail; a ring is
\* left alone.
IsRing(line) == Len(line) > 2 /\ line[1] = line[Len(line)]

RECURSIVE AddLine(_, _)
AddLine(chains, line) ==
  LET atHead == {i \in DOMAIN chains :
                   ~ IsRing(chains[i]) /\ chains[i][Len(chains[i])] = line[1]}
      atTail == {i \in DOMAIN chains :
                   ~ IsRing(chains[i]) /\ chains[i][1] = line[Len(line)]}
      First(S) == CHOOSE i \in S : \A j \in S : i <= j
      Without(i) == [j \in 1 .. Len(chains) - 1 |->
                       IF j < i THEN chains[j] ELSE chains[j + 1]]
  IN IF IsRing(line) THEN Append(chains, line)
     ELSE IF atHead # {}
       THEN AddLine(Without(First(atHead)), chains[First(atHead)] \o Tail(line))
     ELSE IF atTail # {}
       THEN AddLine(Without(First(atTail)), line \o Tail(chains[First(atTail)]))
     ELSE Append(chains, line)

RECURSIVE MergeLines(_, _, _)
MergeLines(chains, merger, i) ==
  IF i > Len(merger) THEN chains
  ELSE MergeLines(AddLine(chains, merger[i].polygons[1]), merger, i + 1)

\* FeatureMergeProcessor::DoMerge: the features it hands to the emitter, the
\* closed rings and the chains left open.
DoMerge(merger) ==
  LET chains == MergeLines(<< >>, merger, 1)
  IN [i \in DOMAIN chains |-> [polygons |-> << chains[i] >>]]

\* DoAddToTree::DoAddToTree
NewDoAddToTree(tree) ==
  [tree |-> tree, m_notMergedCoastsCount |-> 0, m_totalNotMergedCoastsPoints |-> 0]

\* An open feature is put into the tree like a closed one.
DoAddToTreeAlways(doAdd, fb) ==
  [doAdd EXCEPT !.tree = AddRegionToTree(@, fb)]

\* DoAddToTree::operator()
DoAddToTree(doAdd, fb) ==
  IF IsGeometryClosed(fb)
  THEN [doAdd EXCEPT !.tree = AddRegionToTree(@, fb)]
  ELSE [doAdd EXCEPT !.m_notMergedCoastsCount = @ + 1,
                     !.m_totalNotMergedCoastsPoints = @ + FeaturePointsCount(fb)]

\* The counter is compared the wrong way.
HasNotMergedCoastsNonNegative(doAdd) == doAdd.m_notMergedCoastsCount >= 0

\* DoAddToTree::HasNotMergedCoasts
HasNotMergedCoasts(doAdd) == doAdd.m_notMergedCoastsCount # 0

\* m_merger.DoMerge(doAdd): the emitter is called once per feature, in order.
RECURSIVE Emit(_, _, _)
Emit(doAdd, fbs, i) ==
  IF i > Len(fbs) THEN doAdd ELSE Emit(DoAddToTree(doAdd, fbs[i]), fbs, i + 1)

\* The tree as the splitter reads it (TIndex const & index): per region its
\* rect and its number of points.  A region that no cell border cuts is never
\* handed to IntersectRegions with a non-empty result, so clip is its size.
AsIndex(tree) ==
  [i \in DOMAIN tree |->
     [rect |-> tree[i].rgn.rect, size |-> Len(tree[i].rgn.points),
      clip |-> Len(tree[i].rgn.points)]]

\* One turn of the loop of operator()(), lines 271-285, for the only worker: the
\* front cell is taken and either split or handed to the callback of GetFeatures.
Turn(run, index) ==
  LET cell == Front(run.tasks)
      d == CellDifference(index, cell)
  IN IF TooManyPoints(cell, d)
     THEN [run EXCEPT !.tasks = PushChildren(PopFront(run.tasks), cell)]
     ELSE [tasks |-> PopFront(run.tasks),
           features |-> run.features (+) SetToBag({BuildFeature(cell, d)}),
           accepted |-> run.accepted (+) SetToBag({[cell |-> cell, res |-> d.m_res]})]

\* n turns of the loop, one after the other; the loop ends when the list is empty.
RECURSIVE Turns(_, _, _)
Turns(run, index, n) ==
  IF n = 0 \/ run.tasks = << >> THEN run
  ELSE IF n = 1 THEN Turn(run, index)
  ELSE Turns(Turns(run, index, n \div 2), index, n - n \div 2)

\* RegionInCellSplitter::Process as one worker runs it: the loop of operator()()
\* until the list is empty, taken as many turns at a time as the list has cells.
RECURSIVE Drain(_, _)
Drain(run, index) ==
  IF run.tasks = << >> THEN run
  ELSE Drain(Turns(run, index, Len(run.tasks)), index)

\* The features the generator is fed: points of one level kStartLevel cell.
SquareRing ==
  << Pt(1100, 1100), Pt(1110, 1100), Pt(1110, 1110), Pt(1100, 1110), Pt(1100, 1100) >>
\* A hole given without the closing point.
Lake == << Pt(1102, 1102), Pt(1104, 1102), Pt(1104, 1104) >>

FbIsland == [polygons |-> << SquareRing >>]
FbIslandWithLake == [polygons |-> << SquareRing, << >>, Lake >>]
FbCoastA == [polygons |-> << << Pt(1200, 1200), Pt(1210, 1200), Pt(1210, 1210) >> >>]
FbCoastB == [polygons |-> << << Pt(1210, 1210), Pt(1200, 1210), Pt(1200, 1200) >> >>]
FbLone == [polygons |-> << << Pt(1300, 1300), Pt(1305, 1305) >> >>]

FeatureBuilders == {FbIsland, FbIslandWithLake, FbCoastA, FbCoastB, FbLone}

\* The generator is not in use.
GenIdle ==
  /\ m_tree = << >>
  /\ m_merger = << >>
  /\ genPc = "idle"
  /\ finishRet = "none"
  /\ calls = << >>
  /\ delivered = << >>

\* No fold is going on.
FoldIdle ==
  /\ doDiff = DoDifference(CellRegion(Root))
  /\ toVisit = << >>
  /\ visited = << >>
  /\ foldCell = Root

---------------------------------------------------------------------------
(* The splitter's actions.  A worker is at "lock" before line 266, "blocked" *)
(* inside the wait of line 267, at "process" between lines 274 and 278, and  *)
(* "done" after the break of line 269.                                       *)

\* Context ctx, line 215, and GetFeatures' empty output vector.
Init ==
  /\ numThreads \in 1 .. MaxThreads
  /\ baseScale \in BaseScales
  /\ m_index \in Trees
  /\ listTasks = << >>
  /\ inWork = 0
  /\ pc = [w \in Threads |-> "unborn"]
  /\ currentCell = [w \in Threads |-> NoCell]
  /\ mainPc = "seed"
  /\ processRet = "none"
  /\ features = EmptyBag
  /\ accepted = EmptyBag
  /\ featuresMutex = 0
  /\ GenIdle
  /\ FoldIdle

\* Process, lines 217-220
SeedQueue ==
  /\ mainPc = "seed"
  /\ listTasks' = SeedTasks(baseScale)
  /\ mainPc' = "spawn"
  /\ UNCHANGED <<numThreads, baseScale, m_index, inWork, pc, currentCell,
                 processRet, features, accepted>>
  /\ UNCHANGED <<featuresMutex, GenVars, FoldVars>>

\* Process, lines 224-228: the threads start one by one.
Spawn(w) ==
  /\ mainPc = "spawn"
  /\ w <= numThreads
  /\ pc[w] = "unborn"
  /\ \A v \in Threads : v < w => pc[v] # "unborn"
  /\ pc' = [pc EXCEPT ![w] = "lock"]
  /\ mainPc' = IF w = numThreads THEN "join" ELSE "spawn"
  /\ UNCHANGED <<numThreads, baseScale, m_index, listTasks, inWork, currentCell,
                 processRet, features, accepted>>
  /\ UNCHANGED <<featuresMutex, GenVars, FoldVars>>

\* operator()(), lines 266-267: the predicate is false, the worker waits.
Wait(w) ==
  /\ pc[w] = "lock"
  /\ ~ WaitPredicate(listTasks, inWork)
  /\ pc' = [pc EXCEPT ![w] = "blocked"]
  /\ UNCHANGED <<numThreads, baseScale, m_index, listTasks, inWork, currentCell,
                 mainPc, processRet, features, accepted>>
  /\ UNCHANGED <<featuresMutex, GenVars, FoldVars>>

\* operator()(), lines 266-269: the predicate is true and the list is empty.
Break(w) ==
  /\ pc[w] = "lock"
  /\ WaitPredicate(listTasks, inWork)
  /\ listTasks = << >>
  /\ pc' = [pc EXCEPT ![w] = "done"]
  /\ UNCHANGED <<numThreads, baseScale, m_index, listTasks, inWork, currentCell,
                 mainPc, processRet, features, accepted>>
  /\ UNCHANGED <<featuresMutex, GenVars, FoldVars>>

\* The worker takes the front cell and does not count itself.
PopNoIncrement(w) ==
  /\ pc[w] = "lock"
  /\ WaitPredicate(listTasks, inWork)
  /\ listTasks # << >>
  /\ currentCell' = [currentCell EXCEPT ![w] = Front(listTasks)]
  /\ listTasks' = PopFront(listTasks)
  /\ pc' = [pc EXCEPT ![w] = "process"]
  /\ UNCHANGED <<numThreads, baseScale, m_index, inWork, mainPc, processRet,
                 features, accepted>>
  /\ UNCHANGED <<featuresMutex, GenVars, FoldVars>>

\* operator()(), lines 266-274: the worker takes the front cell.
Pop(w) ==
  /\ pc[w] = "lock"
  /\ WaitPredicate(listTasks, inWork)
  /\ listTasks # << >>
  /\ currentCell' = [currentCell EXCEPT ![w] = Front(listTasks)]
  /\ listTasks' = PopFront(listTasks)
  /\ inWork' = inWork + 1
  /\ pc' = [pc EXCEPT ![w] = "process"]
  /\ UNCHANGED <<numThreads, baseScale, m_index, mainPc, processRet, features, accepted>>
  /\ UNCHANGED <<featuresMutex, GenVars, FoldVars>>

\* condition_variable::wait may return without a notification.
SpuriousWakeup(w) ==
  /\ pc[w] = "blocked"
  /\ pc' = [pc EXCEPT ![w] = "lock"]
  /\ UNCHANGED <<numThreads, baseScale, m_index, listTasks, inWork, currentCell,
                 mainPc, processRet, features, accepted>>
  /\ UNCHANGED <<featuresMutex, GenVars, FoldVars>>

\* The children are pushed and the counter drops, but nobody is notified.
RejectQuiet(w) ==
  /\ pc[w] = "process"
  /\ TooManyPoints(currentCell[w], CellDifference(m_index, currentCell[w]))
  /\ listTasks' = PushChildren(listTasks, currentCell[w])
  /\ inWork' = inWork - 1
  /\ pc' = [pc EXCEPT ![w] = "lock"]
  /\ currentCell' = [currentCell EXCEPT ![w] = NoCell]
  /\ UNCHANGED <<numThreads, baseScale, m_index, mainPc, processRet, features, accepted>>
  /\ UNCHANGED <<featuresMutex, GenVars, FoldVars>>

\* operator()(), lines 276-287, with ProcessCell returning false at line 255:
\* the four children go to the back of the list, the counter drops, every
\* waiting worker is notified, and the lock is released at the end of the turn.
\* ProcessCell reads only the tree, so the step takes effect at line 278.
Reject(w) ==
  /\ pc[w] = "process"
  /\ TooManyPoints(currentCell[w], CellDifference(m_index, currentCell[w]))
  /\ listTasks' = PushChildren(listTasks, currentCell[w])
  /\ inWork' = inWork - 1
  /\ pc' = NotifyAll(pc, w)
  /\ currentCell' = [currentCell EXCEPT ![w] = NoCell]
  /\ UNCHANGED <<numThreads, baseScale, m_index, mainPc, processRet, features, accepted>>
  /\ UNCHANGED <<featuresMutex, GenVars, FoldVars>>

\* The regions inside the cell are moved out of the tree into the result.
AcceptMovingRegions(w) ==
  /\ pc[w] = "process"
  /\ LET d == CellDifference(m_index, currentCell[w])
     IN /\ ~ TooManyPoints(currentCell[w], d)
        /\ features' = features (+) SetToBag({BuildFeature(currentCell[w], d)})
        /\ accepted' = accepted (+) SetToBag({[cell |-> currentCell[w], res |-> d.m_res]})
        /\ m_index' = SelectSeq(m_index, LAMBDA r : ~ IsRectInside(d.m_src, r.rect))
  /\ inWork' = inWork - 1
  /\ pc' = NotifyAll(pc, w)
  /\ currentCell' = [currentCell EXCEPT ![w] = NoCell]
  /\ UNCHANGED <<numThreads, baseScale, listTasks, mainPc, processRet>>
  /\ UNCHANGED <<featuresMutex, GenVars, FoldVars>>

\* operator()(), lines 276-287, with ProcessCell returning true at line 258:
\* the callback, lines 301-315, appends the cell's feature under featuresMutex,
\* then the counter drops and every waiting worker is notified.
Accept(w) ==
  /\ pc[w] = "process"
  /\ LET d == CellDifference(m_index, currentCell[w])
     IN /\ ~ TooManyPoints(currentCell[w], d)
        /\ features' = features (+) SetToBag({BuildFeature(currentCell[w], d)})
        /\ accepted' = accepted (+) SetToBag({[cell |-> currentCell[w], res |-> d.m_res]})
  /\ inWork' = inWork - 1
  /\ pc' = NotifyAll(pc, w)
  /\ currentCell' = [currentCell EXCEPT ![w] = NoCell]
  /\ UNCHANGED <<numThreads, baseScale, m_index, listTasks, mainPc, processRet>>
  /\ UNCHANGED <<featuresMutex, GenVars, FoldVars>>

\* Process, lines 230-234
Join ==
  /\ mainPc = "join"
  /\ \A w \in 1 .. numThreads : pc[w] = "done"
  /\ processRet' = (listTasks = << >>)
  /\ mainPc' = "returned"
  /\ UNCHANGED <<numThreads, baseScale, m_index, listTasks, inWork, pc, currentCell,
                 features, accepted>>
  /\ UNCHANGED <<featuresMutex, GenVars, FoldVars>>

Worker(w) ==
  \/ Wait(w) \/ Break(w) \/ Pop(w) \/ SpuriousWakeup(w) \/ Reject(w) \/ Accept(w)

Next ==
  \/ SeedQueue
  \/ \E w \in Threads : Spawn(w)
  \/ \E w \in Threads : Worker(w)
  \/ Join

Spec == Init /\ [][Next]_vars

\* The splitter as GetFeatures runs it, line 297-298: the base scale is
\* kStartLevel, so the list is seeded with the 256 cells of level 4.  The run
\* is followed for one and for two workers, over a tree that holds the heavy
\* island together with the regions at the border of two cells.
StartTrees == {TreeHeavy \o TreeCoast}

StartInit ==
  /\ numThreads \in 1 .. Min2(MaxThreads, 2)
  /\ baseScale = kStartLevel
  /\ m_index \in StartTrees
  /\ listTasks = << >>
  /\ inWork = 0
  /\ pc = [w \in Threads |-> "unborn"]
  /\ currentCell = [w \in Threads |-> NoCell]
  /\ mainPc = "seed"
  /\ processRet = "none"
  /\ features = EmptyBag
  /\ accepted = EmptyBag
  /\ featuresMutex = 0
  /\ GenIdle
  /\ FoldIdle

StartSpec == StartInit /\ [][Next]_vars

\* The same run under fair scheduling: the thread of Process and every started
\* worker keep taking their next step.  A wait is ended only by a notification:
\* a spurious wakeup may happen but is never relied on.
FairStep(w) ==
  Wait(w) \/ Break(w) \/ Pop(w) \/ Reject(w) \/ Accept(w)

\* FairStep(w) is enabled exactly at "lock" (one of Wait, Break and Pop applies)
\* and at "process" (one of Reject and Accept applies).
FairStepEnabled(w) == pc[w] \in {"lock", "process"}

\* WF_vars(FairStep(w)), written with FairStepEnabled(w) for ENABLED <<FairStep(w)>>_vars.
WorkerFairness(w) ==
  []<>(~ FairStepEnabled(w)) \/ []<><<FairStep(w)>>_vars

FairSpec ==
  /\ Init /\ [][Next]_vars
  /\ WF_vars(SeedQueue)
  /\ WF_vars(\E w \in Threads : Spawn(w))
  /\ WF_vars(Join)
  /\ \A w \in Threads : WorkerFairness(w)

---------------------------------------------------------------------------
(* The splitter with the callback of GetFeatures taken step by step: a     *)
(* worker is at "append" while it holds featuresMutex, lines 314-315, and  *)
(* at "finish" between the return of ProcessCell and line 278.             *)

\* The worker does not wait for the mutex.
LockFeaturesNoWait(w) ==
  /\ pc[w] = "process"
  /\ ~ TooManyPoints(currentCell[w], CellDifference(m_index, currentCell[w]))
  /\ featuresMutex' = w
  /\ accepted' = accepted (+) SetToBag({[cell |-> currentCell[w],
                  res |-> CellDifference(m_index, currentCell[w]).m_res]})
  /\ pc' = [pc EXCEPT ![w] = "append"]
  /\ UNCHANGED <<numThreads, baseScale, m_index, listTasks, inWork, currentCell,
                 mainPc, processRet, features>>
  /\ UNCHANGED <<GenVars, FoldVars>>

\* ProcessCell, line 257, and the callback, lines 301-314: the cell is not over
\* the budget, the callback builds the feature and takes featuresMutex.
LockFeatures(w) ==
  /\ pc[w] = "process"
  /\ ~ TooManyPoints(currentCell[w], CellDifference(m_index, currentCell[w]))
  /\ featuresMutex = 0
  /\ featuresMutex' = w
  /\ accepted' = accepted (+) SetToBag({[cell |-> currentCell[w],
                  res |-> CellDifference(m_index, currentCell[w]).m_res]})
  /\ pc' = [pc EXCEPT ![w] = "append"]
  /\ UNCHANGED <<numThreads, baseScale, m_index, listTasks, inWork, currentCell,
                 mainPc, processRet, features>>
  /\ UNCHANGED <<GenVars, FoldVars>>

\* The callback, line 315, and the end of the lock_guard's scope.
EmplaceBack(w) ==
  /\ pc[w] = "append"
  /\ features' = features (+) SetToBag({BuildFeature(currentCell[w],
                                          CellDifference(m_index, currentCell[w]))})
  /\ featuresMutex' = 0
  /\ pc' = [pc EXCEPT ![w] = "finish"]
  /\ UNCHANGED <<numThreads, baseScale, m_index, listTasks, inWork, currentCell,
                 mainPc, processRet, accepted>>
  /\ UNCHANGED <<GenVars, FoldVars>>

\* operator()(), lines 278-287, with done true.
EndTurn(w) ==
  /\ pc[w] = "finish"
  /\ inWork' = inWork - 1
  /\ pc' = NotifyAll(pc, w)
  /\ currentCell' = [currentCell EXCEPT ![w] = NoCell]
  /\ UNCHANGED <<numThreads, baseScale, m_index, listTasks, mainPc, processRet,
                 features, accepted, featuresMutex>>
  /\ UNCHANGED <<GenVars, FoldVars>>

EmitWorker(w) ==
  \/ Wait(w) \/ Break(w) \/ Pop(w) \/ SpuriousWakeup(w) \/ Reject(w)
  \/ LockFeatures(w) \/ EmplaceBack(w) \/ EndTurn(w)

EmitNext ==
  \/ SeedQueue
  \/ \E w \in Threads : Spawn(w)
  \/ \E w \in Threads : EmitWorker(w)
  \/ Join

\* The trees whose cells split at most down to level 3: the steps of the
\* callback are the same on every level.
EmitTrees == Trees \ {TreeHeavy}

EmitInit == Init /\ m_index \in EmitTrees

EmitSpec == EmitInit /\ [][EmitNext]_vars

---------------------------------------------------------------------------
(* The generator's calls: Process any number of times, then Finish, then   *)
(* GetFeatures.  GetFeatures returns after the splitter's threads are      *)
(* joined; its run of the splitter is taken as the run of one worker.      *)

\* The splitter is not running; index is the tree it would read.
SplitterIdle(index) ==
  /\ numThreads = 1
  /\ baseScale = kStartLevel
  /\ m_index = index
  /\ listTasks = << >>
  /\ inWork = 0
  /\ pc = [w \in Threads |-> "unborn"]
  /\ currentCell = [w \in Threads |-> NoCell]
  /\ mainPc = "idle"
  /\ processRet = "none"
  /\ features = EmptyBag
  /\ accepted = EmptyBag
  /\ featuresMutex = 0

\* CoastlineFeaturesGenerator::CoastlineFeaturesGenerator
GenInit ==
  /\ SplitterIdle(<< >>)
  /\ m_tree = << >>
  /\ m_merger = << >>
  /\ genPc = "process"
  /\ finishRet = "none"
  /\ calls = << >>
  /\ delivered = << >>
  /\ FoldIdle

\* A call of CoastlineFeaturesGenerator::Process
ProcessCall(fb) ==
  /\ genPc = "process"
  /\ Len(calls) < MaxCalls
  /\ LET r == Process(m_tree, m_merger, fb)
     IN /\ m_tree' = r.tree
        /\ m_merger' = r.merger
  /\ calls' = Append(calls, fb)
  /\ UNCHANGED <<genPc, finishRet, delivered>>
  /\ UNCHANGED <<SplitterVars, FoldVars>>

\* CoastlineFeaturesGenerator::Finish
Finish ==
  /\ genPc = "process"
  /\ LET out == DoMerge(m_merger)
         doAdd == Emit(NewDoAddToTree(m_tree), out, 1)
     IN /\ m_tree' = doAdd.tree
        /\ delivered' = out
        /\ finishRet' = ~ HasNotMergedCoasts(doAdd)
  /\ m_merger' = << >>
  /\ genPc' = "finished"
  /\ UNCHANGED calls
  /\ UNCHANGED <<SplitterVars, FoldVars>>

\* CoastlineFeaturesGenerator::GetFeatures
GetFeatures ==
  /\ genPc = "finished"
  /\ LET out == Drain([tasks |-> SeedTasks(kStartLevel), features |-> features,
                       accepted |-> accepted], AsIndex(m_tree))
     IN /\ features' = out.features
        /\ accepted' = out.accepted
  /\ genPc' = "emitted"
  /\ UNCHANGED <<numThreads, baseScale, m_index, listTasks, inWork, pc, currentCell,
                 mainPc, processRet, featuresMutex>>
  /\ UNCHANGED <<m_tree, m_merger, finishRet, calls, delivered>>
  /\ UNCHANGED FoldVars

GenNext ==
  \/ \E fb \in FeatureBuilders : ProcessCall(fb)
  \/ Finish
  \/ GetFeatures

GenSpec == GenInit /\ [][GenNext]_vars

---------------------------------------------------------------------------
(* The fold of ProcessCell, lines 250-251, one visited region at a time.   *)

MaxRegions == 2
MaxFoldLevel == 2

\* The regions of the tree: one across the border between two level 1 cells,
\* one that touches that border from the right, one inside a level 2 cell,
\* and one inside a level 1 cell that a cut would leave with fewer points.
FoldRegions ==
  {Coast(Quarter(0), 7, 5), Shore(Quarter(1), 3), Island(Child(Quarter(0), 3), 6),
   [Island(Quarter(2), 8) EXCEPT !.clip = 5]}

FoldTrees == UNION {[1 .. n -> FoldRegions] : n \in 0 .. MaxRegions}

FoldCells ==
  UNION {{FromBitsAndLevel(b, l) : b \in 0 .. TotalCellsOnLevel(l) - 1} :
           l \in 0 .. MaxFoldLevel}

\* ProcessCell, lines 239-250, for some cell and some tree.
FoldInit ==
  /\ \E cell \in FoldCells, index \in FoldTrees :
        /\ SplitterIdle(index)
        /\ foldCell = cell
        /\ doDiff = DoDifference(CellRegion(cell))
        /\ toVisit = ForEachInRect(index, GetLimitRect(CellRegion(cell)))
  /\ visited = << >>
  /\ GenIdle

\* ForEachInRect hands the next region to doDiff.
VisitRegion ==
  /\ toVisit # << >>
  /\ doDiff' = Visit(doDiff, Head(toVisit))
  /\ toVisit' = Tail(toVisit)
  /\ visited' = Append(visited, Head(toVisit))
  /\ UNCHANGED foldCell
  /\ UNCHANGED <<SplitterVars, GenVars>>

FoldNext == VisitRegion

FoldSpec == FoldInit /\ [][FoldNext]_vars

---------------------------------------------------------------------------
(* Properties of the splitter *)

Seeds == {FromBitsAndLevel(i, baseScale) : i \in 0 .. TotalCellsOnLevel(baseScale) - 1}

AcceptedCells == {a.cell : a \in BagToSet(accepted)}

IsAncestor(a, b) ==
  a.level < b.level /\ b.bits \div (4 ^ (b.level - a.level)) = a.bits

\* The cell is accepted itself, or it was split and its four children are covered.
RECURSIVE Covered(_, _)
Covered(cell, cells) ==
  \/ cell \in cells
  \/ /\ \E e \in cells : IsAncestor(cell, e)
     /\ \A i \in 0 .. MAX_CHILDREN - 1 : Covered(Child(cell, i), cells)

\* What one thread that walks the cells depth-first hands to the callback.
RECURSIVE FeaturesBelow(_, _)
FeaturesBelow(index, cell) ==
  LET d == CellDifference(index, cell)
      SubFeatures[i \in 0 .. MAX_CHILDREN] ==
        IF i = 0 THEN EmptyBag
        ELSE SubFeatures[i - 1] (+) FeaturesBelow(index, Child(cell, i - 1))
  IN IF cell.level < kHighLevel /\ GetPointsCount(d) >= kMaxPoints
     THEN SubFeatures[MAX_CHILDREN]
     ELSE SetToBag({BuildFeature(cell, d)})

ExpectedFeatures(index, scale) ==
  LET n == TotalCellsOnLevel(scale)
      Upto[i \in 0 .. n] ==
        IF i = 0 THEN EmptyBag
        ELSE Upto[i - 1] (+) FeaturesBelow(index, FromBitsAndLevel(i - 1, scale))
  IN Upto[n]

\* C1: a worker that has left its loop implies an empty work list, inWork = 0
\* and no worker between taking a cell and decrementing inWork.
ExitOnlyWhenQuiescent ==
  (\E w \in Threads : pc[w] = "done") =>
     /\ listTasks = << >>
     /\ inWork = 0
     /\ \A v \in Threads : pc[v] # "process"

\* Two workers ran, cells were split, and one worker has left while the other
\* has not yet looked at the list again.
ExitOnlyWhenQuiescentWitness ==
  /\ numThreads >= 2
  /\ \E w, v \in Threads : pc[w] = "done" /\ pc[v] \in {"lock", "blocked"}
  /\ \E c \in AcceptedCells : c.level > baseScale

\* C2: under fair scheduling Process returns, and it returns true with every
\* worker out of its loop, the list empty and inWork = 0.
ProcessCompletes ==
  <>(/\ mainPc = "returned"
     /\ processRet = TRUE
     /\ \A w \in 1 .. numThreads : pc[w] = "done"
     /\ listTasks = << >>
     /\ inWork = 0)

\* Process has returned true after a run of MaxThreads workers in which cells
\* were split down to kHighLevel.
ProcessCompletesWitness ==
  /\ mainPc = "returned"
  /\ processRet = TRUE
  /\ numThreads = MaxThreads
  /\ m_index = TreeHeavy

\* C3: when Process has returned, every seed cell is covered, no cell was handed
\* to the callback twice, and no accepted cell is an ancestor of another.
TilesExactlyOnce ==
  mainPc = "returned" =>
     /\ \A s \in Seeds : Covered(s, AcceptedCells)
     /\ \A a \in BagToSet(accepted) : CopiesIn(a, accepted) = 1
     /\ \A c, e \in AcceptedCells : ~ IsAncestor(c, e)

\* A run of several workers has ended with cells accepted on two levels.
TilesExactlyOnceWitness ==
  /\ mainPc = "returned"
  /\ numThreads >= 2
  /\ m_index = TreeTwo
  /\ \E c, e \in AcceptedCells : c.level < e.level

\* C4: every cell handed to the callback is at kHighLevel or its result has at
\* most kMaxPoints points.
PointBudget ==
  \A a \in BagToSet(accepted) :
     a.cell.level = kHighLevel \/ SumSizes(a.res, 1) <= kMaxPoints

\* A kHighLevel cell was accepted with more than kMaxPoints points.
PointBudgetWitness ==
  \E a \in BagToSet(accepted) :
     a.cell.level = kHighLevel /\ SumSizes(a.res, 1) > kMaxPoints

\* C5: when Process has returned, the bag of features is the one a single
\* depth-first walk of the cells yields, whatever numThreads and the interleaving.
ParallelEquivalence ==
  mainPc = "returned" => features = ExpectedFeatures(m_index, baseScale)

\* A run of several workers over a tree with a cut region has ended.
ParallelEquivalenceWitness ==
  /\ mainPc = "returned"
  /\ numThreads >= 2
  /\ m_index = TreeCoast
  /\ \E f \in BagToSet(features) : Len(f.polygons) > 1

---------------------------------------------------------------------------
(* Properties of the generator *)

\* The cells the splitter starts from in GetFeatures.
StartCells == {FromBitsAndLevel(b, kStartLevel) : b \in 0 .. 4 ^ kStartLevel - 1}

\* The bounding rect of a list of lattice points; of no points, the empty rect.
BoundingRect(pts) == IF pts = << >> THEN EmptyRegion.rect ELSE RectOf(pts)

\* The tree entry of a region with the given points.
Entry(pts) ==
  [rgn |-> [points |-> pts, rect |-> BoundingRect(pts)], rect |-> BoundingRect(pts)]

NonEmptyPolygons(fb) == SelectSeq(fb.polygons, LAMBDA p : p # << >>)

\* Per non-empty polygon the lattice points of all its points but the first.
RegionsSkippingFirst(fb) ==
  LET ne == NonEmptyPolygons(fb)
  IN [j \in DOMAIN ne |-> Entry([i \in 1 .. Len(ne[j]) - 1 |-> D2I(ne[j][i + 1])])]

\* Per polygon the lattice points of all its points but the last.
RegionsSkippingLast(fb) ==
  [j \in DOMAIN fb.polygons |->
     Entry([i \in 1 .. Len(fb.polygons[j]) - 1 |-> D2I(fb.polygons[j][i])])]

RECURSIVE RegionsOfAll(_)
RegionsOfAll(fbs) ==
  IF fbs = << >> THEN << >> ELSE RegionsSkippingFirst(Head(fbs)) \o RegionsOfAll(Tail(fbs))

\* C6: with no Process call Finish returns true and GetFeatures yields 4^kStartLevel
\* features, one per level kStartLevel cell, each of one polygon of four points
\* that spans the cell; no cell below kStartLevel is handed to the callback.
EmptyPlanet ==
  /\ (calls = << >> /\ genPc \in {"finished", "emitted"}) => finishRet = TRUE
  /\ (calls = << >> /\ genPc = "emitted") =>
       /\ BagCardinality(features) = 4 ^ kStartLevel
       /\ \A cell \in StartCells :
            \E f \in BagToSet(features) :
               /\ f.coastCell = ToInt64(cell, kHighLevel + 1)
               /\ Len(f.polygons) = 1
               /\ f.polygons[1].size = 4
               /\ f.polygons[1].rect = CellRegion(cell).rect
       /\ BagCardinality(accepted) = 4 ^ kStartLevel
       /\ \A a \in BagToSet(accepted) : a.cell.level = kStartLevel

\* GetFeatures has returned on a generator that was never fed.
EmptyPlanetWitness ==
  /\ calls = << >>
  /\ genPc = "emitted"
  /\ m_tree = << >>
  /\ features # EmptyBag

\* C7: Finish returns false exactly when DoMerge delivered a feature that is not
\* closed; the tree gains the regions of the closed features delivered, in
\* order, and nothing else.
FinishReportsResidue ==
  [][(genPc = "process" /\ genPc' = "finished") =>
       /\ finishRet' = ~ (\E i \in DOMAIN delivered' : ~ IsGeometryClosed(delivered'[i]))
       /\ m_tree' = m_tree \o RegionsOfAll(SelectSeq(delivered', IsGeometryClosed))]_vars

\* Finish has returned false after the merger delivered a ring and an open chain.
FinishReportsResidueWitness ==
  /\ genPc = "finished"
  /\ finishRet = FALSE
  /\ \E i \in DOMAIN delivered : IsGeometryClosed(delivered[i])
  /\ \E i \in DOMAIN delivered : ~ IsGeometryClosed(delivered[i])
  /\ m_tree # << >>

\* C9 as stated: Process of a closed feature adds, per polygon, the region of the
\* polygon's points with the last point skipped, under its bounding rect.
ProcessSkipsLastPoint ==
  [][\A fb \in FeatureBuilders :
       (genPc = "process" /\ calls' = Append(calls, fb) /\ IsGeometryClosed(fb)) =>
          m_tree' = m_tree \o RegionsSkippingLast(fb)]_vars

\* C9: Process of a closed feature adds, per non-empty polygon and in order, the
\* region of the polygon's points with the first point skipped, each converted
\* by D2I, under the region's bounding rect.
ProcessSkipsFirstPoint ==
  [][\A fb \in FeatureBuilders :
       (genPc = "process" /\ calls' = Append(calls, fb) /\ IsGeometryClosed(fb)) =>
          m_tree' = m_tree \o RegionsSkippingFirst(fb)]_vars

\* The last call fed a closed feature with an empty polygon and with a polygon
\* whose last point is not its first.
ProcessSkipsFirstPointWitness ==
  /\ genPc = "process"
  /\ calls # << >>
  /\ calls[Len(calls)] = FbIslandWithLake
  /\ Len(m_tree) >= 2
  /\ m_tree[Len(m_tree)].rgn.points = << D2I(Lake[2]), D2I(Lake[3]) >>

\* C10: Process of a closed feature adds one region per non-empty polygon to the
\* tree and leaves the merger alone; Process of an open feature hands it to the
\* merger and leaves the tree alone; nothing else changes.
ProcessRoutes ==
  [][\A fb \in FeatureBuilders :
       (genPc = "process" /\ calls' = Append(calls, fb)) =>
          /\ IF IsGeometryClosed(fb)
             THEN /\ Len(m_tree') = Len(m_tree) + Len(NonEmptyPolygons(fb))
                  /\ SubSeq(m_tree', 1, Len(m_tree)) = m_tree
                  /\ m_merger' = m_merger
             ELSE /\ m_tree' = m_tree
                  /\ m_merger' = Append(m_merger, fb)
          /\ UNCHANGED <<genPc, finishRet, delivered, features, accepted>>]_vars

\* Closed and open features were fed: the tree and the merger both hold some.
ProcessRoutesWitness ==
  /\ genPc = "process"
  /\ \E i \in DOMAIN calls : calls[i] = FbIslandWithLake
  /\ \E i \in DOMAIN calls : ~ IsGeometryClosed(calls[i])
  /\ Len(m_tree) = 2
  /\ Len(m_merger) = 1

---------------------------------------------------------------------------
(* Properties of the fold *)

Envelope == CellRegion(foldCell)

InsideCell(r) == IsRectInside(Envelope.rect, r.rect)

\* What the visited regions add to the result: an inside region itself, any
\* other region the pieces of its intersection with the envelope.
RECURSIVE Contributions(_)
Contributions(regions) ==
  IF regions = << >> THEN << >>
  ELSE (IF InsideCell(Head(regions)) THEN << Head(regions) >>
        ELSE Intersection(Envelope, Head(regions)))
       \o Contributions(Tail(regions))

\* C8 as stated: after the fold the result holds one first element and, after
\* it, only the regions that were inside the cell.
FoldKeepsOnlyInsideRegions ==
  toVisit = << >> =>
     /\ Len(doDiff.m_res) = 1 + Len(SelectSeq(visited, InsideCell))
     /\ Tail(doDiff.m_res) = SelectSeq(visited, InsideCell)

\* C8: the first element of the result stays the cell envelope; a visited region
\* inside the cell is appended as it is, and for any other visited region the
\* pieces of its intersection with the envelope are appended.
FoldAppendsPieces ==
  doDiff.m_res = << Envelope >> \o Contributions(visited)

\* The fold has ended after an inside region and a region cut by the cell.
FoldAppendsPiecesWitness ==
  /\ toVisit = << >>
  /\ \E i \in DOMAIN visited : InsideCell(visited[i])
  /\ \E i \in DOMAIN visited :
        ~ InsideCell(visited[i]) /\ Intersection(Envelope, visited[i]) # << >>

---------------------------------------------------------------------------
(* Further properties of the splitter *)

\* FeatureBuilder::GetPointsCount of a feature the callback built.
RECURSIVE PolygonPoints(_, _)
PolygonPoints(polygons, i) ==
  IF i > Len(polygons) THEN 0 ELSE polygons[i].size + PolygonPoints(polygons, i + 1)

\* C11: every feature the callback builds has at least one polygon and at least
\* three points, so neither check of lines 310-311 fails.
GeometryNotEmpty ==
  \A f \in BagToSet(features) :
     Len(f.polygons) > 0 /\ PolygonPoints(f.polygons, 1) >= 3

\* The callback has built a feature of the bare envelope and one of several
\* polygons.
GeometryNotEmptyWitness ==
  /\ m_index = TreeCoast
  /\ \E f \in BagToSet(features) : Len(f.polygons) = 1
  /\ \E f \in BagToSet(features) : Len(f.polygons) > 1

\* C12: a step that changes the output adds exactly one feature, that of the
\* cell of the worker that holds featuresMutex, and takes nothing away; at most
\* one worker is in the append section; when Process has returned there are as
\* many features as cells handed to the callback.
AppendUnderMutex ==
  /\ [](Cardinality({w \in Threads : pc[w] = "append"}) <= 1)
  /\ [](\A w \in Threads : pc[w] = "append" <=> featuresMutex = w)
  /\ [][features' # features =>
          \E w \in Threads :
             /\ featuresMutex = w
             /\ features' = features (+) SetToBag({BuildFeature(currentCell[w],
                                 CellDifference(m_index, currentCell[w]))})]_vars
  /\ [](mainPc = "returned" => BagCardinality(features) = BagCardinality(accepted))

\* One worker holds featuresMutex while another has its feature ready and waits
\* for the mutex.
AppendUnderMutexWitness ==
  \E w, v \in Threads :
     /\ pc[w] = "append"
     /\ featuresMutex = w
     /\ pc[v] = "process"
     /\ ~ TooManyPoints(currentCell[v], CellDifference(m_index, currentCell[v]))
     /\ features # EmptyBag

\* C13: no step of the splitter changes the tree it reads, so the tree at the
\* return of Process is the tree at its start.
TreeReadOnly == [][m_index' = m_index]_vars

\* Process has returned after the workers read a region of the tree into a
\* cell's result.
TreeReadOnlyWitness ==
  /\ mainPc = "returned"
  /\ m_index = TreeIsland
  /\ \E a \in BagToSet(accepted) : Len(a.res) = 2

---------------------------------------------------------------------------
(* Further properties of the generator *)

\* The polylines of the open features among fbs, in order.
OpenLines(fbs) ==
  LET open == SelectSeq(fbs, LAMBDA fb : ~ IsGeometryClosed(fb))
  IN [i \in DOMAIN open |-> open[i].polygons[1]]

\* Spliced at equal endpoints the polylines leave no free end: every point is
\* the head of as many polylines as it is the tail of.
SplicesToRings(lines) ==
  \A p \in {lines[i][1] : i \in DOMAIN lines} \cup {lines[i][Len(lines[i])] : i \in DOMAIN lines} :
     Cardinality({i \in DOMAIN lines : lines[i][1] = p})
       = Cardinality({i \in DOMAIN lines : lines[i][Len(lines[i])] = p})

\* C14: when the open polylines fed to Process splice to rings only, Finish
\* returns true, it is handed rings only (head and tail coincide), at least one
\* if any polyline was fed, and FbCoastA followed by FbCoastB gives one region
\* in the tree, with the four corners of the ring.
MergerClosure ==
  (genPc # "process" /\ SplicesToRings(OpenLines(calls))) =>
     /\ finishRet = TRUE
     /\ \A i \in DOMAIN delivered :
          LET ring == delivered[i].polygons[1]
          IN Len(ring) > 2 /\ ring[1] = ring[Len(ring)]
     /\ OpenLines(calls) # << >> => delivered # << >>
     /\ calls = << FbCoastA, FbCoastB >> =>
          /\ Len(m_tree) = 1
          /\ {m_tree[1].rgn.points[i] : i \in DOMAIN m_tree[1].rgn.points}
               = {D2I(Pt(1200, 1200)), D2I(Pt(1210, 1200)),
                  D2I(Pt(1210, 1210)), D2I(Pt(1200, 1210))}
          /\ Len(m_tree[1].rgn.points) = 4

\* Finish has returned true after the two halves of a ring were fed.
MergerClosureWitness ==
  /\ genPc = "finished"
  /\ calls = << FbCoastA, FbCoastB >>
  /\ finishRet = TRUE
  /\ Len(delivered) = 1
  /\ Len(m_tree) = 1

---------------------------------------------------------------------------
(* Further properties of the worker pool *)

\* C15: no worker is left in the wait when the list is non-empty or inWork is 0:
\* the step that changes either wakes it; and under fair scheduling, with no
\* spurious wakeup needed, again and again no worker is in the wait, so none
\* stays in it forever.
NoLostWakeup ==
  /\ [](\A w \in Threads : pc[w] = "blocked" => (listTasks = << >> /\ inWork # 0))
  /\ []<>(\A w \in Threads : pc[w] # "blocked")

\* A worker is in the wait while another one holds a cell that it will split.
NoLostWakeupWitness ==
  \E w, v \in Threads :
     /\ pc[w] = "blocked"
     /\ pc[v] = "process"
     /\ currentCell[v].level < kHighLevel
     /\ SumSizes(CellDifference(m_index, currentCell[v]).m_res, 1) >= kMaxPoints

\* C16: the step that ends the processing of a cell either pushes the cell's four
\* children and calls no callback (the cell is below kHighLevel and its result
\* has kMaxPoints points or more), or calls the callback once with the cell and
\* pushes nothing.
ExactlyOneOutcome ==
  [][\A w \in Threads :
       (pc[w] = "process" /\ pc'[w] # "process") =>
          LET cell == currentCell[w]
              res == CellDifference(m_index, cell).m_res
              entry == [cell |-> cell, res |-> res]
          IN IF cell.level < kHighLevel /\ SumSizes(res, 1) >= kMaxPoints
             THEN /\ accepted' = accepted
                  /\ features' = features
                  /\ listTasks' = listTasks \o << Child(cell, 0), Child(cell, 1),
                                                  Child(cell, 2), Child(cell, 3) >>
             ELSE /\ accepted' = accepted (+) SetToBag({entry})
                  /\ BagCardinality(features') = BagCardinality(features) + 1
                  /\ listTasks' = listTasks]_vars

\* Both outcomes have happened: a cell was split, and a cell of kHighLevel was
\* handed to the callback with kMaxPoints points or more.
ExactlyOneOutcomeWitness ==
  /\ \E a \in BagToSet(accepted) :
        a.cell.level = kHighLevel /\ SumSizes(a.res, 1) >= kMaxPoints
  /\ \E a \in BagToSet(accepted) :
        a.cell.level > baseScale /\ SumSizes(a.res, 1) < kMaxPoints

---------------------------------------------------------------------------
(* Further properties of the fold *)

\* C17: the step that visits a region inside the cell appends that region as it
\* is to the end of the result and changes no element that was there, nor m_src.
InsideAppendedUnchanged ==
  [][(toVisit # << >> /\ toVisit' = Tail(toVisit) /\ InsideCell(Head(toVisit))) =>
        /\ doDiff'.m_res = Append(doDiff.m_res, Head(toVisit))
        /\ doDiff'.m_src = doDiff.m_src]_vars

\* A region inside the cell, which a cut would have changed, was visited after
\* another region and is the last element of the result.
InsideAppendedUnchangedWitness ==
  /\ Len(visited) >= 2
  /\ InsideCell(visited[Len(visited)])
  /\ visited[Len(visited)].clip # visited[Len(visited)].size
  /\ doDiff.m_res[Len(doDiff.m_res)] = visited[Len(visited)]
  /\ Len(doDiff.m_res) >= 3

---------------------------------------------------------------------------
(* Further properties of the work list *)

\* C18: when the first worker is about to be started the list holds the
\* 4^baseScale cells of level baseScale, each once and in increasing order of
\* their bits, and inWork is 0.
SeededBeforeStart ==
  (mainPc = "spawn" /\ \A w \in Threads : pc[w] = "unborn") =>
     /\ Len(listTasks) = 4 ^ baseScale
     /\ \A i \in 1 .. Len(listTasks) :
          listTasks[i] = [level |-> baseScale, bits |-> i - 1]
     /\ inWork = 0

\* The list is seeded with the four cells of level 1 and no worker runs yet.
SeededBeforeStartWitness ==
  /\ mainPc = "spawn"
  /\ \A w \in Threads : pc[w] = "unborn"
  /\ baseScale = 1
  /\ Len(listTasks) = 4

\* C19: the list changes in three ways only: it is seeded; a worker takes its
\* first cell; a worker appends the four children of its cell, in the order 0..3
\* and in one step, behind all cells that are in the list.  So the cells leave
\* the list in the order they entered it, and a cell is never behind a cell of
\* a higher level.
FifoOrder ==
  /\ [][listTasks' # listTasks =>
          \/ mainPc = "seed" /\ listTasks = << >>
          \/ \E w \in Threads :
                /\ pc[w] = "lock"
                /\ listTasks # << >>
                /\ currentCell'[w] = Head(listTasks)
                /\ listTasks' = Tail(listTasks)
          \/ \E w \in Threads :
                /\ pc[w] = "process"
                /\ listTasks' = listTasks \o << Child(currentCell[w], 0),
                                                Child(currentCell[w], 1),
                                                Child(currentCell[w], 2),
                                                Child(currentCell[w], 3) >>]_vars
  /\ [](\A i, j \in DOMAIN listTasks :
          i < j => listTasks[i].level <= listTasks[j].level)

\* The children of a split cell stand in the list behind older cells of the
\* level above.
FifoOrderWitness ==
  /\ Len(listTasks) > MAX_CHILDREN
  /\ listTasks[1].level < listTasks[Len(listTasks)].level
  /\ \E w \in Threads : pc[w] = "process"

\* C20: in every state inWork is the number of workers that have taken a cell
\* and not yet decremented the counter; it is never below 0 nor above the
\* number of threads.
InWorkCountsWorkers ==
  /\ inWork = Cardinality({w \in Threads : pc[w] = "process"})
  /\ inWork >= 0
  /\ inWork <= numThreads

\* Every started worker holds a cell, and there are several.
InWorkCountsWorkersWitness ==
  /\ numThreads >= 2
  /\ inWork = numThreads
  /\ \A w \in 1 .. numThreads : pc[w] = "process"

\* The cells the workers hold between line 271 and line 278.
CellsInWork == {currentCell[w] : w \in {v \in Threads : pc[v] = "process"}}

\* The cells in the list.
CellsInList == {listTasks[i] : i \in DOMAIN listTasks}

\* The cells of the levels kStartLevel .. kHighLevel: finitely many.
IsStartToHighCell(c) ==
  /\ c.level \in kStartLevel .. kHighLevel
  /\ c.bits \in 0 .. TotalCellsOnLevel(c.level) - 1

\* C21: in the run GetFeatures starts, every cell in the list, held by a
\* worker or handed to the callback has a level from kStartLevel to kHighLevel
\* and is a cell of that level; no cell is in the list twice or in the list
\* and held at once, so the list never holds more cells than there are at
\* kHighLevel; and the step that ends the processing of a kHighLevel cell
\* leaves the list alone and hands the cell to the callback.
LevelsInRange ==
  /\ [](\A c \in CellsInList \cup CellsInWork \cup AcceptedCells :
           IsStartToHighCell(c))
  /\ [](/\ Cardinality(CellsInList) = Len(listTasks)
        /\ CellsInList \cap CellsInWork = {}
        /\ Len(listTasks) <= TotalCellsOnLevel(kHighLevel))
  /\ [][\A w \in Threads :
          (/\ pc[w] = "process"
           /\ pc'[w] # "process"
           /\ currentCell[w].level = kHighLevel)
          => /\ listTasks' = listTasks
             /\ currentCell[w] \in {a.cell : a \in BagToSet(accepted')}]_vars

\* Process has returned from the run over the heavy island: cells of level
\* kStartLevel and a cell of level kHighLevel that held kMaxPoints points or
\* more were handed to the callback, and the list is empty.
LevelsInRangeWitness ==
  /\ mainPc = "returned"
  /\ baseScale = kStartLevel
  /\ listTasks = << >>
  /\ \E a \in BagToSet(accepted) : a.cell.level = kStartLevel
  /\ \E a \in BagToSet(accepted) :
        a.cell.level = kHighLevel /\ SumSizes(a.res, 1) >= kMaxPoints

====
